---- MODULE Spec2Model ----
(***************************************************************************)
(* A model of CustomMCPClient (src/src/mcp_client/client.py): the tool     *)
(* catalog, the bounded conversation context, the TOOL_USE directive       *)
(* parser, the tool call and the interactive shell loop.                   *)
(*                                                                         *)
(* Texts are sequences of tokens.  A token is one character class of the   *)
(* regular expressions the code uses (a word character, a whitespace       *)
(* character, a brace, ...) or one literal the code searches for.          *)
(***************************************************************************)
EXTENDS Integers, Sequences, FiniteSets, TLC

VARIABLES
    pc,                    \* where the host is: load, input, the awaits of a turn, stopped, crashed
    tools,                 \* self.tools, in dict insertion order
    listed,                \* load_tools: tools_response.tools
    conversation_history,  \* self.conversation_history
    max_history,           \* self.max_history
    user_input,            \* the stripped input line of the current turn
    context,               \* the prompt of the first generate call of the turn
    response,              \* the first model reply of the turn
    tool_name,             \* handle_tool_use: tool_name
    tool_result,           \* handle_tool_use: tool_result
    result,                \* call_tool: result.content
    final_response,        \* handle_tool_use: final_response
    raised,                \* the faults the collaborators raised so far in the turn
    calls,                 \* the collaborator calls made so far in the turn
    output,                \* what the last shell step printed
    last,                  \* the last shell step taken
    turn_start             \* conversation_history when the turn began

vars == <<pc, tools, listed, conversation_history, max_history, user_input, context,
          response, tool_name, tool_result, result, final_response, raised, calls, output,
          last, turn_start>>

-----------------------------------------------------------------------------
(* Bounds of the model *)

MaxHistoryLen == 4       \* a turn starts only while the history is shorter than this
MaxWindow == 2           \* the small window max_history is configured with
MaxCtxLen == 3           \* the longest history the context specification renders
MaxCtxWindow == 4        \* the context specification renders with windows 0..MaxCtxWindow
MaxFragments == 3        \* the longest content the call_tool specification formats

(* Program constants *)

DefaultMaxHistory == 20
HistoryShown == 10
ContentShown == 100

-----------------------------------------------------------------------------
(* Tokens *)

TU == "TOOL_USE:"
PM == "PARAMETERS:"
WordChars == {"a", "b"}
SpaceChars == {"sp", "nl"}
Members == {"kv1", "kv2"}     \* a complete member "key": scalar of a JSON object
KeyColon == "k:"              \* a key and its colon, the value follows

Min(x, y) == IF x <= y THEN x ELSE y
Max(x, y) == IF x >= y THEN x ELSE y

Contains(text, tok) == \E i \in 1..Len(text) : text[i] = tok

\* the first index >= i of text that holds no whitespace (Len(text)+1 if none): \s*
RECURSIVE SkipSpace(_, _)
SkipSpace(text, i) ==
    IF i <= Len(text) /\ text[i] \in SpaceChars THEN SkipSpace(text, i + 1) ELSE i

\* the longest run of word characters from index i on: (\w+).  The literals
\* TOOL_USE: and PARAMETERS: are word characters up to their colon.
RECURSIVE WordRun(_, _)
WordRun(text, i) ==
    IF i > Len(text) THEN <<>>
    ELSE IF text[i] \in WordChars THEN <<text[i]>> \o WordRun(text, i + 1)
    ELSE IF text[i] = TU THEN <<"TOOL_USE">>
    ELSE IF text[i] = PM THEN <<"PARAMETERS">>
    ELSE <<>>

\* text[start:] of Python, start any integer
PySliceFrom(s, start) ==
    LET from == IF start < 0 THEN Max(Len(s) + start, 0) ELSE Min(start, Len(s))
    IN  SubSeq(s, from + 1, Len(s))

\* text[:stop] of Python, stop >= 0
PySliceTo(s, stop) == SubSeq(s, 1, Min(stop, Len(s)))

RECURSIVE LStrip(_)
LStrip(text) ==
    IF text # <<>> /\ Head(text) \in SpaceChars THEN LStrip(Tail(text)) ELSE text

RECURSIVE RStrip(_)
RStrip(text) ==
    IF text # <<>> /\ text[Len(text)] \in SpaceChars
    THEN RStrip(SubSeq(text, 1, Len(text) - 1)) ELSE text

Strip(text) == LStrip(RStrip(text))

-----------------------------------------------------------------------------
(* re.search(r'TOOL_USE:\s*(\w+)', response) *)

ToolMatchAt(text, i) ==
    /\ text[i] = TU
    /\ WordRun(text, SkipSpace(text, i + 1)) # <<>>

HasToolMatch(text) == \E i \in 1..Len(text) : ToolMatchAt(text, i)

\* group(1) of the leftmost match
ToolMatchGroup(text) ==
    LET i == CHOOSE k \in 1..Len(text) :
                 ToolMatchAt(text, k) /\ \A m \in 1..(k - 1) : ~ToolMatchAt(text, m)
    IN  WordRun(text, SkipSpace(text, i + 1))

(* re.search(r'PARAMETERS:\s*({.*?})', response, re.DOTALL) *)

ParamMatchAt(text, i) ==
    /\ text[i] = PM
    /\ LET j == SkipSpace(text, i + 1)
       IN  /\ j <= Len(text)
           /\ text[j] = "{"
           /\ \E k \in (j + 1)..Len(text) : text[k] = "}"

HasParamMatch(text) == \E i \in 1..Len(text) : ParamMatchAt(text, i)

\* group(1) of the leftmost match: from the brace to the first closing brace
ParamMatchGroup(text) ==
    LET i == CHOOSE k \in 1..Len(text) :
                 ParamMatchAt(text, k) /\ \A m \in 1..(k - 1) : ~ParamMatchAt(text, m)
        j == SkipSpace(text, i + 1)
        e == CHOOSE k \in (j + 1)..Len(text) :
                 text[k] = "}" /\ \A m \in (j + 1)..(k - 1) : text[m] # "}"
    IN  SubSeq(text, j, e)

-----------------------------------------------------------------------------
(* json.loads on a text that starts with an opening brace *)

NoSpace(text) == SelectSeq(text, LAMBDA c : c \notin SpaceChars)

\* ObjEnd(s, i): the index after the object that starts at s[i], 0 if there is none
RECURSIVE ObjEnd(_, _), MemberEnd(_, _)
ObjEnd(s, i) ==
    IF i > Len(s) \/ s[i] # "{" THEN 0
    ELSE IF i + 1 <= Len(s) /\ s[i + 1] = "}" THEN i + 2
    ELSE MemberEnd(s, i + 1)

\* a member at s[i], then a comma and more members, or the closing brace
MemberEnd(s, i) ==
    LET j == IF i > Len(s) THEN 0
             ELSE IF s[i] \in Members THEN i + 1
             ELSE IF s[i] = KeyColon THEN ObjEnd(s, i + 1)
             ELSE 0
    IN  IF j = 0 \/ j > Len(s) THEN 0
        ELSE IF s[j] = "}" THEN j + 1
        ELSE IF s[j] = "," THEN MemberEnd(s, j + 1)
        ELSE 0

JSONDecodeError == <<"JSONDecodeError">>

\* the value json.loads returns: the object without its insignificant whitespace
JsonLoads(text) ==
    LET s == NoSpace(text)
    IN  IF ObjEnd(s, 1) = Len(s) + 1 THEN s ELSE JSONDecodeError

EmptyDict == <<"{", "}">>

-----------------------------------------------------------------------------
(* The tool catalog: self.tools, a dict kept as its items in insertion order *)

NoName == <<"<missing>">>     \* a descriptor without a name attribute

Tool(n, d) == [name |-> n, description |-> d]

ToolA == <<"a">>
ToolB == <<"b">>

\* the lists the tool provider may answer list_tools with
ProviderLists ==
    { <<>>,
      <<Tool(ToolA, "d1")>>,
      <<Tool(ToolB, "d1"), Tool(ToolA, "d1"), Tool(ToolB, "d2")>>,
      <<Tool(ToolA, "d1"), Tool(ToolB, "d1"), Tool(ToolA, "d2")>>,
      <<Tool(ToolA, "d1"), Tool(ToolA, "d2"), Tool(NoName, "d1"), Tool(ToolB, "d1")>> }

Keys(d) == [i \in 1..Len(d) |-> d[i].name]

\* a catalog check that finds every name
HasKeyAlways(d, n) == TRUE

HasKey(d, n) == \E i \in 1..Len(d) : d[i].name = n

\* an insert that keeps the descriptor a known key already has
DictSetKeepsFirst(d, tool) ==
    IF \E i \in 1..Len(d) : d[i].name = tool.name THEN d ELSE Append(d, tool)

\* d[tool.name] = tool: a new key goes last, a known key keeps its place
DictSet(d, tool) ==
    IF HasKey(d, tool.name)
    THEN [i \in 1..Len(d) |-> IF d[i].name = tool.name THEN tool ELSE d[i]]
    ELSE Append(d, tool)

\* the for loop of load_tools when the print of the k-th descriptor raises
\* (k = 0: no print raises): the insert, which raises AttributeError when the
\* descriptor has no name, then the print
RECURSIVE LoadLoop(_, _, _)
LoadLoop(d, list, k) ==
    IF list = <<>> THEN d
    ELSE IF Head(list).name = NoName THEN d
    ELSE IF k = 1 THEN DictSet(d, Head(list))
    ELSE LoadLoop(DictSet(d, Head(list)), Tail(list), k - 1)

\* what the loop raises, "none" when it runs to the end of the list
RECURSIVE LoadLoopRaises(_, _)
LoadLoopRaises(list, k) ==
    IF list = <<>> THEN "none"
    ELSE IF Head(list).name = NoName THEN "AttributeError"
    ELSE IF k = 1 THEN "OSError"
    ELSE LoadLoopRaises(Tail(list), k - 1)

\* the descriptors whose line the loop printed
RECURSIVE LoadPrinted(_, _)
LoadPrinted(list, k) ==
    IF list = <<>> THEN <<>>
    ELSE IF Head(list).name = NoName \/ k = 1 THEN <<>>
    ELSE <<Head(list)>> \o LoadPrinted(Tail(list), k - 1)

-----------------------------------------------------------------------------
(* Faults a collaborator may raise *)

Exceptions == {"Exception", "TimeoutError"}     \* subclasses of Exception
BaseOnly == {"CancelledError"}                  \* BaseException, not Exception
Faults == Exceptions \cup BaseOnly

\* an except clause that lets every fault through
CatchesNothing(f) == FALSE

\* what "except Exception" catches
CaughtByExceptException(f) == f \in Exceptions

-----------------------------------------------------------------------------
(* The prompt *)

Message(r, c) == [role |-> r, content |-> c]

\* format_tools_for_prompt: nothing for an empty catalog, else one entry per tool
\* and the instruction block
format_tools_for_prompt(d) ==
    IF d = <<>> THEN [present |-> FALSE, entries |-> <<>>]
    ELSE [present |-> TRUE, entries |-> d]

\* build_conversation_context: the tools section, then the history section with
\* the messages history[-max_history:]
RecentMessages(history, window) == PySliceFrom(history, 0 - window)

\* a context that always opens its history section
build_conversation_context_section(d, history, window) ==
    [tools    |-> format_tools_for_prompt(d),
     section  |-> TRUE,
     messages |-> RecentMessages(history, window),
     cue      |-> <<>>]

build_conversation_context(d, history, window) ==
    [tools    |-> format_tools_for_prompt(d),
     section  |-> history # <<>>,
     messages |-> IF history # <<>> THEN RecentMessages(history, window) ELSE <<>>,
     cue      |-> <<>>]

NoContext == [tools |-> format_tools_for_prompt(<<>>), section |-> FALSE,
              messages |-> <<>>, cue |-> <<>>]

-----------------------------------------------------------------------------
(* call_tool: the result text of the content fragments *)

Fragment(hasText, txt, ty) == [hasText |-> hasText, text |-> txt, type |-> ty]

\* str(content) of a fragment
Repr(frag) == <<"<fragment>">>

RECURSIVE FormatFragments(_)
FormatFragments(content) ==
    IF content = <<>> THEN <<>>
    ELSE LET c == Head(content)
             piece == IF c.hasText THEN c.text \o <<"nl">>
                      ELSE IF c.type = "text" THEN Repr(c) \o <<"nl">>
                      ELSE <<>>
         IN  piece \o FormatFragments(Tail(content))

ToolText(content) == [kind |-> "text", text |-> Strip(FormatFragments(content)),
                      tool |-> <<>>, cause |-> "none"]

ToolError(n, f) == [kind |-> "error", text |-> <<>>, tool |-> n, cause |-> f]

NoResult == [kind |-> "none", text |-> <<>>, tool |-> <<>>, cause |-> "none"]

\* the contents a successful session.call_tool may return
ToolContents ==
    { <<Fragment(TRUE, <<"a">>, "text")>>,
      <<Fragment(TRUE, <<"sp", "a">>, "text"), Fragment(FALSE, <<>>, "image"),
        Fragment(TRUE, <<"b", "nl">>, "text")>> }

-----------------------------------------------------------------------------
(* What a turn returns and what the shell prints *)

Out(k, txt, n, l, f) == [kind |-> k, text |-> txt, tool |-> n, listing |-> l, cause |-> f]

NoOutput == Out("none", <<>>, <<>>, <<>>, "none")
ReplyOut(txt) == Out("reply", txt, <<>>, <<>>, "none")
\* "I tried to use a tool but couldn't parse the tool name."
UnparsableOut == Out("unparsable_name", <<>>, <<>>, <<>>, "none")
\* "I tried to use {tool_name} but the parameters were malformed: {e}"
MalformedOut(n) == Out("malformed_parameters", <<>>, n, <<>>, "JSONDecodeError")
\* "Tool '{tool_name}' not found. Available tools: ..."
UnknownToolOut(n, d) == Out("unknown_tool", <<>>, n, Keys(d), "none")
\* "I encountered an error while using the tool: {e}"
ToolUseErrorOut(f) == Out("tool_use_error", <<>>, <<>>, <<>>, f)
\* "Error: {e}" printed by the shell loop
ShellErrorOut(f) == Out("shell_error", <<>>, <<>>, <<>>, f)

GenerateCall == [op |-> "generate", tool |-> <<>>, arguments |-> <<>>]
ToolCall(n, args) == [op |-> "call_tool", tool |-> n, arguments |-> args]

-----------------------------------------------------------------------------
(* The inputs of the model *)

\* the values max_history is configured with
WindowSizes == {MaxWindow, DefaultMaxHistory}

\* the lines input() may return
Lines ==
    { <<"quit">>, <<"exit">>, <<"sp", "BYE">>, <<"tools">>, <<"Tools", "nl">>,
      <<"history">>, <<"clear">>, <<"sp", "CLEAR", "sp">>, <<>>, <<"sp", "nl">>,
      <<"clear", "sp", "a">>, <<"sp", "clear", "sp", "a", "nl">> }

LowerChar(c) ==
    CASE c = "BYE" -> "bye"
      [] c = "Tools" -> "tools"
      [] c = "CLEAR" -> "clear"
      [] OTHER -> c

\* str.lower
Lower(text) == [i \in 1..Len(text) |-> LowerChar(text[i])]

QuitWords == {<<"quit">>, <<"exit">>, <<"bye">>}

\* the first replies the model may give
PlainReplies ==
    { <<"a", "sp", "b">>,
      <<PM, "sp", "{", "kv1", "}">> }

DirectiveReplies ==
    { <<TU, "sp", "a", "nl", PM, "sp", "{", "kv1", "}">>,
      <<"b", "sp", TU, "sp", "b", "nl", PM, "sp", "{", "}">>,
      <<TU, "sp", "a">>,
      <<TU, "sp", "a", "nl", PM, "sp", "{", "nl", "kv1", ",", "nl", "kv2", "nl", "}">>,
      <<TU, "sp", "a", "nl", PM, "sp", "{", "k:", "{", "kv1", "}", "}">>,
      <<TU, "sp", "a", "nl", PM, "sp", "{", "a", "sp", "b">>,
      <<TU, "sp", "a", "nl", PM, "sp", "{", "a", "}">>,
      <<TU, "sp", "a", "nl", PM, "sp", "a">>,
      <<TU, "sp", "a", "b", "nl", PM, "sp", "{", "kv2", "}">>,
      <<TU, "sp", "-">>,
      <<TU, "nl", PM, "sp", "{", "kv1", "}">> }

Replies == PlainReplies \cup DirectiveReplies

\* the replies the model may give to the follow-up prompt
FollowupReplies ==
    { <<"a", "sp", "b">>,
      <<TU, "sp", "a">> }

-----------------------------------------------------------------------------
(* Construction *)

Init ==
    /\ pc = "load"
    /\ tools = <<>>
    /\ listed = <<>>
    /\ conversation_history = <<>>
    /\ max_history \in WindowSizes
    /\ user_input = <<>>
    /\ context = NoContext
    /\ response = <<>>
    /\ tool_name = <<>>
    /\ tool_result = NoResult
    /\ result = <<>>
    /\ final_response = <<>>
    /\ raised = <<>>
    /\ calls = <<>>
    /\ output = NoOutput
    /\ last = "none"
    /\ turn_start = <<>>

turn_vars == <<user_input, context, response, tool_name, tool_result, result,
               final_response, raised, calls, turn_start>>

\* the locals of a finished turn are gone once the loop takes its next step
NoTurn ==
    /\ user_input' = <<>>
    /\ context' = NoContext
    /\ response' = <<>>
    /\ tool_name' = <<>>
    /\ tool_result' = NoResult
    /\ result' = <<>>
    /\ final_response' = <<>>
    /\ raised' = <<>>
    /\ calls' = <<>>
    /\ turn_start' = <<>>

-----------------------------------------------------------------------------
(* load_tools *)

\* an exception that nothing up to the shell loop catches ends the session
Escapes == pc' = "crashed"

LoadTools ==
    /\ pc = "load"
    /\ \E list \in ProviderLists : \E k \in 0..Len(list) :
          /\ listed' = list
          /\ tools' = LoadLoop(tools, list, k)
          /\ raised' = IF LoadLoopRaises(list, k) # "none"
                       THEN <<[where |-> "load_tools", fault |-> LoadLoopRaises(list, k)]>>
                       ELSE <<>>
          /\ output' = IF LoadLoopRaises(list, k) # "none"
                       THEN Out("load_failed", <<>>, <<>>, LoadPrinted(list, k),
                                LoadLoopRaises(list, k))
                       ELSE Out("loaded", <<>>, <<>>, LoadPrinted(list, k), "none")
    /\ pc' = "input"
    /\ last' = "load"
    /\ UNCHANGED <<conversation_history, max_history, user_input, context, response,
                   tool_name, tool_result, result, final_response, calls, turn_start>>

\* session.list_tools() raises
LoadToolsFault ==
    /\ pc = "load"
    /\ \E f \in Faults :
          /\ raised' = <<[where |-> "list_tools", fault |-> f]>>
          /\ IF CaughtByExceptException(f)
             THEN /\ pc' = "input"
                  /\ output' = Out("load_failed", <<>>, <<>>, <<>>, f)
             ELSE Escapes /\ UNCHANGED output
          /\ last' = "load"
    /\ UNCHANGED <<tools, listed, conversation_history, max_history, user_input, context,
                   response, tool_name, tool_result, result, final_response, calls, turn_start>>

-----------------------------------------------------------------------------
(* interactive_session: one pass of the while loop up to its first await *)

Quit ==
    /\ pc = "input"
    /\ \E line \in Lines : Lower(Strip(line)) \in QuitWords
    /\ pc' = "stopped"
    /\ output' = Out("goodbye", <<>>, <<>>, <<>>, "none")
    /\ last' = "quit"
    /\ NoTurn
    /\ UNCHANGED <<tools, listed, conversation_history, max_history>>

\* KeyboardInterrupt or EOFError out of input()
EndOfInput ==
    /\ pc = "input"
    /\ pc' = "stopped"
    /\ output' = Out("goodbye", <<>>, <<>>, <<>>, "none")
    /\ last' = "eof"
    /\ NoTurn
    /\ UNCHANGED <<tools, listed, conversation_history, max_history>>

ToolsCommand ==
    /\ pc = "input"
    /\ \E line \in Lines :
          /\ Lower(Strip(line)) \notin QuitWords
          /\ Lower(Strip(line)) = <<"tools">>
    /\ output' = Out("tools", <<>>, <<>>, tools, "none")
    /\ last' = "tools"
    /\ NoTurn
    /\ UNCHANGED <<pc, tools, listed, conversation_history, max_history>>

\* the last ten messages, each content cut to a hundred characters
HistoryListing(history) ==
    LET shown == PySliceFrom(history, 0 - HistoryShown)
    IN  [i \in 1..Len(shown) |->
            Message(shown[i].role, PySliceTo(shown[i].content, ContentShown))]

HistoryCommand ==
    /\ pc = "input"
    /\ \E line \in Lines :
          /\ Lower(Strip(line)) \notin QuitWords \cup {<<"tools">>}
          /\ Lower(Strip(line)) = <<"history">>
    /\ output' = Out("history", <<>>, <<>>, HistoryListing(conversation_history), "none")
    /\ last' = "history"
    /\ NoTurn
    /\ UNCHANGED <<pc, tools, listed, conversation_history, max_history>>

\* a clear command read while a turn is still awaiting its reply
ClearCommandDuringTurn ==
    /\ pc \in {"input", "AwaitingModelReply", "AwaitingToolResult", "AwaitingFollowupReply"}
    /\ \E line \in Lines :
          /\ Lower(Strip(line)) \notin QuitWords \cup {<<"tools">>, <<"history">>}
          /\ Lower(Strip(line)) = <<"clear">>
    /\ conversation_history' = <<>>
    /\ output' = Out("cleared", <<>>, <<>>, <<>>, "none")
    /\ IF pc = "input" THEN last' = "clear" /\ NoTurn ELSE UNCHANGED <<last, turn_vars>>
    /\ UNCHANGED <<pc, tools, listed, max_history>>

\* a clear command that drops the oldest message only
ClearCommandDropsOldest ==
    /\ pc = "input"
    /\ \E line \in Lines :
          /\ Lower(Strip(line)) \notin QuitWords \cup {<<"tools">>, <<"history">>}
          /\ Lower(Strip(line)) = <<"clear">>
    /\ conversation_history' = PySliceFrom(conversation_history, 1)
    /\ output' = Out("cleared", <<>>, <<>>, <<>>, "none")
    /\ last' = "clear"
    /\ NoTurn
    /\ UNCHANGED <<pc, tools, listed, max_history>>

ClearCommand ==
    /\ pc = "input"
    /\ \E line \in Lines :
          /\ Lower(Strip(line)) \notin QuitWords \cup {<<"tools">>, <<"history">>}
          /\ Lower(Strip(line)) = <<"clear">>
    /\ conversation_history' = <<>>
    /\ output' = Out("cleared", <<>>, <<>>, <<>>, "none")
    /\ last' = "clear"
    /\ NoTurn
    /\ UNCHANGED <<pc, tools, listed, max_history>>

EmptyInput ==
    /\ pc = "input"
    /\ \E line \in Lines : Strip(line) = <<>>
    /\ last' = "empty"
    /\ NoTurn
    /\ UNCHANGED <<pc, tools, listed, conversation_history, max_history, output>>

\* a shell that takes every line as a question
AnyInputIsTurn(text) == TRUE

IsTurnInput(text) ==
    /\ Lower(text) \notin QuitWords \cup {<<"tools">>, <<"history">>, <<"clear">>}
    /\ text # <<>>

\* a turn that keeps only the window of the history it renders
StartTurnTruncates ==
    /\ pc = "input"
    /\ Len(conversation_history) < MaxHistoryLen
    /\ \E line \in Lines :
          /\ IsTurnInput(Strip(line))
          /\ user_input' = Strip(line)
          /\ conversation_history' =
                RecentMessages(Append(conversation_history, Message("user", Strip(line))),
                               max_history)
    /\ context' = [build_conversation_context(tools, conversation_history', max_history)
                      EXCEPT !.cue = user_input']
    /\ calls' = <<GenerateCall>>
    /\ turn_start' = conversation_history
    /\ response' = <<>>
    /\ tool_name' = <<>>
    /\ tool_result' = NoResult
    /\ result' = <<>>
    /\ final_response' = <<>>
    /\ raised' = <<>>
    /\ output' = NoOutput
    /\ last' = "turn"
    /\ pc' = "AwaitingModelReply"
    /\ UNCHANGED <<tools, listed, max_history>>

\* process_user_input up to the await of the first generate call
StartTurn ==
    /\ pc = "input"
    /\ Len(conversation_history) < MaxHistoryLen
    /\ \E line \in Lines :
          /\ IsTurnInput(Strip(line))
          /\ user_input' = Strip(line)
          /\ conversation_history' =
                Append(conversation_history, Message("user", Strip(line)))
    /\ context' = [build_conversation_context(tools, conversation_history', max_history)
                      EXCEPT !.cue = user_input']
    /\ calls' = <<GenerateCall>>
    /\ turn_start' = conversation_history
    /\ response' = <<>>
    /\ tool_name' = <<>>
    /\ tool_result' = NoResult
    /\ result' = <<>>
    /\ final_response' = <<>>
    /\ raised' = <<>>
    /\ output' = NoOutput
    /\ last' = "turn"
    /\ pc' = "AwaitingModelReply"
    /\ UNCHANGED <<tools, listed, max_history>>

-----------------------------------------------------------------------------
(* process_user_input after the first generate call returned *)

\* handle_tool_use: the parameters the directive is read as, or JSONDecodeError
ParsedParameters(text) ==
    IF HasParamMatch(text) THEN JsonLoads(Strip(ParamMatchGroup(text))) ELSE EmptyDict

\* the turn returns value out to the shell, which prints it
ReturnToShell(out) ==
    /\ output' = out
    /\ pc' = "input"

\* a plain reply that is returned and not stored
PlainReplyNotStored ==
    /\ pc = "AwaitingModelReply"
    /\ \E r \in Replies :
          /\ ~Contains(r, TU)
          /\ response' = r
          /\ ReturnToShell(ReplyOut(r))
    /\ UNCHANGED <<tools, listed, conversation_history, max_history, user_input, context,
                   tool_name, tool_result, result, final_response, raised, calls, last,
                   turn_start>>

\* no TOOL_USE: in the reply
PlainReply ==
    /\ pc = "AwaitingModelReply"
    /\ \E r \in Replies :
          /\ ~Contains(r, TU)
          /\ response' = r
          /\ conversation_history' = Append(conversation_history, Message("assistant", r))
          /\ ReturnToShell(ReplyOut(r))
    /\ UNCHANGED <<tools, listed, max_history, user_input, context, tool_name, tool_result, result,
                   final_response, raised, calls, last, turn_start>>

\* handle_tool_use: tool_match is None
DirectiveNoToolName ==
    /\ pc = "AwaitingModelReply"
    /\ \E r \in Replies :
          /\ Contains(r, TU)
          /\ ~HasToolMatch(r)
          /\ response' = r
          /\ ReturnToShell(UnparsableOut)
    /\ UNCHANGED <<tools, listed, conversation_history, max_history, user_input, context,
                   tool_name, tool_result, result, final_response, raised, calls, last,
                   turn_start>>

\* handle_tool_use: json.loads raises JSONDecodeError
DirectiveMalformedParameters ==
    /\ pc = "AwaitingModelReply"
    /\ \E r \in Replies :
          /\ Contains(r, TU)
          /\ HasToolMatch(r)
          /\ ParsedParameters(r) = JSONDecodeError
          /\ response' = r
          /\ tool_name' = Strip(ToolMatchGroup(r))
          /\ ReturnToShell(MalformedOut(tool_name'))
    /\ UNCHANGED <<tools, listed, conversation_history, max_history, user_input, context,
                   tool_result, result, final_response, raised, calls, last, turn_start>>

\* handle_tool_use: tool_name not in self.tools
DirectiveUnknownTool ==
    /\ pc = "AwaitingModelReply"
    /\ \E r \in Replies :
          /\ Contains(r, TU)
          /\ HasToolMatch(r)
          /\ ParsedParameters(r) # JSONDecodeError
          /\ ~HasKey(tools, Strip(ToolMatchGroup(r)))
          /\ response' = r
          /\ tool_name' = Strip(ToolMatchGroup(r))
          /\ ReturnToShell(UnknownToolOut(tool_name', tools))
    /\ UNCHANGED <<tools, listed, conversation_history, max_history, user_input, context,
                   tool_result, result, final_response, raised, calls, last, turn_start>>

\* handle_tool_use up to the await of session.call_tool in call_tool
DirectiveCallTool ==
    /\ pc = "AwaitingModelReply"
    /\ \E r \in Replies :
          /\ Contains(r, TU)
          /\ HasToolMatch(r)
          /\ ParsedParameters(r) # JSONDecodeError
          /\ HasKey(tools, Strip(ToolMatchGroup(r)))
          /\ response' = r
          /\ tool_name' = Strip(ToolMatchGroup(r))
          /\ calls' = Append(calls, ToolCall(tool_name', ParsedParameters(r)))
    /\ pc' = "AwaitingToolResult"
    /\ UNCHANGED <<tools, listed, conversation_history, max_history, user_input, context,
                   tool_result, result, final_response, raised, output, last, turn_start>>

Raise(where, f) == raised' = Append(raised, [where |-> where, fault |-> f])

\* the first generate call raises: nothing in process_user_input catches it, the
\* shell loop catches an Exception and prints it
ModelFault ==
    /\ pc = "AwaitingModelReply"
    /\ \E f \in Faults :
          /\ Raise("generate", f)
          /\ IF CaughtByExceptException(f)
             THEN ReturnToShell(ShellErrorOut(f))
             ELSE Escapes /\ UNCHANGED output
    /\ UNCHANGED <<tools, listed, conversation_history, max_history, user_input, context,
                   response, tool_name, tool_result, result, final_response, calls, last,
                   turn_start>>

-----------------------------------------------------------------------------
(* call_tool, and handle_tool_use up to the await of the second generate call *)

AskFollowup(returned) ==
    /\ tool_result' = returned
    /\ calls' = Append(calls, GenerateCall)
    /\ pc' = "AwaitingFollowupReply"

ToolReturns ==
    /\ pc = "AwaitingToolResult"
    /\ \E content \in ToolContents :
          /\ result' = content
          /\ AskFollowup(ToolText(content))
    /\ UNCHANGED <<tools, listed, conversation_history, max_history, user_input, context,
                   response, tool_name, final_response, raised, output, last,
                   turn_start>>

\* a call_tool that tries the provider a second time after a fault
ToolFaultRetries ==
    /\ pc = "AwaitingToolResult"
    /\ \E f \in Faults :
          /\ Raise("call_tool", f)
          /\ IF Len(calls) < 3
             THEN /\ calls' = Append(calls, ToolCall(tool_name, calls[Len(calls)].arguments))
                  /\ UNCHANGED <<pc, tool_result>>
             ELSE AskFollowup(ToolError(tool_name, f))
    /\ UNCHANGED <<result, tools, listed, conversation_history, max_history, user_input,
                   context, response, tool_name, final_response, output, last, turn_start>>

\* session.call_tool raises: call_tool catches an Exception and returns the
\* error text as the result
ToolFault ==
    /\ pc = "AwaitingToolResult"
    /\ \E f \in Faults :
          /\ Raise("call_tool", f)
          /\ IF CaughtByExceptException(f)
             THEN AskFollowup(ToolError(tool_name, f))
             ELSE Escapes /\ UNCHANGED <<tool_result, calls>>
    /\ UNCHANGED <<result, tools, listed, conversation_history, max_history, user_input, context,
                   response, tool_name, final_response, output, last, turn_start>>

-----------------------------------------------------------------------------
(* handle_tool_use after the second generate call *)

\* a follow-up that also stores the directive reply
FollowupReplyStoresDirective ==
    /\ pc = "AwaitingFollowupReply"
    /\ \E r \in FollowupReplies :
          /\ final_response' = r
          /\ conversation_history' =
                conversation_history \o
                    <<Message("assistant", response), Message("assistant", r)>>
          /\ ReturnToShell(ReplyOut(r))
    /\ UNCHANGED <<tools, listed, max_history, user_input, context, response, tool_name,
                   tool_result, result, raised, calls, last, turn_start>>

FollowupReply ==
    /\ pc = "AwaitingFollowupReply"
    /\ \E r \in FollowupReplies :
          /\ final_response' = r
          /\ conversation_history' = Append(conversation_history, Message("assistant", r))
          /\ ReturnToShell(ReplyOut(r))
    /\ UNCHANGED <<tools, listed, max_history, user_input, context, response, tool_name,
                   tool_result, result, raised, calls, last, turn_start>>

\* a follow-up fault whose diagnostic is stored as the assistant's answer
FollowupFaultStoresDiagnostic ==
    /\ pc = "AwaitingFollowupReply"
    /\ \E f \in Faults :
          /\ Raise("followup", f)
          /\ ReturnToShell(ToolUseErrorOut(f))
    /\ conversation_history' = Append(conversation_history, Message("assistant", <<>>))
    /\ UNCHANGED <<tools, listed, max_history, user_input, context, response, tool_name,
                   tool_result, result, final_response, calls, last, turn_start>>

\* the second generate call raises: the except clause of handle_tool_use
FollowupFault ==
    /\ pc = "AwaitingFollowupReply"
    /\ \E f \in Faults :
          /\ Raise("followup", f)
          /\ IF CaughtByExceptException(f)
             THEN ReturnToShell(ToolUseErrorOut(f))
             ELSE Escapes /\ UNCHANGED output
    /\ UNCHANGED <<tools, listed, conversation_history, max_history, user_input, context,
                   response, tool_name, tool_result, result, final_response, calls, last,
                   turn_start>>

-----------------------------------------------------------------------------

Next ==
    \/ LoadTools
    \/ LoadToolsFault
    \/ Quit
    \/ EndOfInput
    \/ ToolsCommand
    \/ HistoryCommand
    \/ ClearCommand
    \/ EmptyInput
    \/ StartTurn
    \/ PlainReply
    \/ DirectiveNoToolName
    \/ DirectiveMalformedParameters
    \/ DirectiveUnknownTool
    \/ DirectiveCallTool
    \/ ModelFault
    \/ ToolReturns
    \/ ToolFault
    \/ FollowupReply
    \/ FollowupFault

Spec == Init /\ [][Next]_vars

-----------------------------------------------------------------------------
(* build_conversation_context on its own: any history, any window *)

CtxMessages ==
    { Message("user", <<"a">>), Message("user", <<"b">>), Message("assistant", <<"b">>) }

RECURSIVE SeqsUpTo(_, _)
SeqsUpTo(S, n) ==
    IF n = 0 THEN {<<>>}
    ELSE LET shorter == SeqsUpTo(S, n - 1)
         IN  shorter \cup {Append(q, x) : q \in {t \in shorter : Len(t) = n - 1}, x \in S}

InitCtx ==
    /\ pc = "render"
    /\ tools \in {<<>>, <<Tool(ToolA, "d1")>>}
    /\ listed = <<>>
    /\ conversation_history \in SeqsUpTo(CtxMessages, MaxCtxLen)
    /\ max_history \in 0..MaxCtxWindow
    /\ user_input = <<>>
    /\ context = NoContext
    /\ response = <<>>
    /\ tool_name = <<>>
    /\ tool_result = NoResult
    /\ result = <<>>
    /\ final_response = <<>>
    /\ raised = <<>>
    /\ calls = <<>>
    /\ output = NoOutput
    /\ last = "none"
    /\ turn_start = <<>>

RenderContext ==
    /\ pc = "render"
    /\ context' = build_conversation_context(tools, conversation_history, max_history)
    /\ pc' = "rendered"
    /\ UNCHANGED <<tools, listed, conversation_history, max_history, user_input, response,
                   tool_name, tool_result, result, final_response, raised, calls, output, last,
                   turn_start>>

\* conversation_history.clear() on the history drawn
ClearHistory ==
    /\ pc = "render"
    /\ last = "none"
    /\ conversation_history' = <<>>
    /\ last' = "clear"
    /\ UNCHANGED <<pc, tools, listed, max_history, user_input, context, response, tool_name,
                   tool_result, result, final_response, raised, calls, output, turn_start>>

NextCtx ==
    \/ RenderContext
    \/ ClearHistory

SpecCtx == InitCtx /\ [][NextCtx]_vars

-----------------------------------------------------------------------------
(* call_tool on its own: any content of up to MaxFragments fragments *)

Fragments ==
    { Fragment(TRUE, <<"a">>, "text"),
      Fragment(TRUE, <<"sp", "b", "nl">>, "text"),
      Fragment(TRUE, <<>>, "text"),
      Fragment(FALSE, <<>>, "text"),
      Fragment(FALSE, <<>>, "image") }

InitCallTool ==
    /\ pc = "AwaitingToolResult"
    /\ tools = <<Tool(ToolA, "d1")>>
    /\ listed = <<>>
    /\ conversation_history = <<>>
    /\ max_history = DefaultMaxHistory
    /\ user_input = <<>>
    /\ context = NoContext
    /\ response = <<>>
    /\ tool_name = ToolA
    /\ tool_result = NoResult
    /\ result \in SeqsUpTo(Fragments, MaxFragments)
    /\ final_response = <<>>
    /\ raised = <<>>
    /\ calls = <<>>
    /\ output = NoOutput
    /\ last = "none"
    /\ turn_start = <<>>

\* the formatting loop and the strip on the content received
FormatResult ==
    /\ pc = "AwaitingToolResult"
    /\ tool_result' = ToolText(result)
    /\ pc' = "returned"
    /\ UNCHANGED <<tools, listed, conversation_history, max_history, user_input, context,
                   response, tool_name, result, final_response, raised, calls, output,
                   last, turn_start>>

\* session.call_tool raises instead of returning the content
CallToolRaises ==
    /\ pc = "AwaitingToolResult"
    /\ \E f \in Exceptions :
          /\ Raise("call_tool", f)
          /\ tool_result' = ToolError(tool_name, f)
    /\ pc' = "returned"
    /\ UNCHANGED <<tools, listed, conversation_history, max_history, user_input, context,
                   response, tool_name, result, final_response, calls, output, last,
                   turn_start>>

NextCallTool ==
    \/ FormatResult
    \/ CallToolRaises

SpecCallTool == InitCallTool /\ [][NextCallTool]_vars

-----------------------------------------------------------------------------
(* Vocabulary of the properties *)

TurnReturned == pc = "input" /\ last = "turn"

ToolCalls == SelectSeq(calls, LAMBDA c : c.op = "call_tool")
GenerateCalls == SelectSeq(calls, LAMBDA c : c.op = "generate")

UserMessage == Message("user", user_input)

CatalogNames == {tools[i].name : i \in 1..Len(tools)}

\* the text after the first PARAMETERS: marker, without whitespace
AfterMarker(text) ==
    LET i == CHOOSE k \in 1..Len(text) :
                 text[k] = PM /\ \A m \in 1..(k - 1) : text[m] # PM
    IN  NoSpace(SubSeq(text, i + 1, Len(text)))

\* a complete JSON object follows the marker
ValidObjectFollows(text) == Contains(text, PM) /\ ObjEnd(AfterMarker(text), 1) # 0

\* that object
ObjectAfterMarker(text) == SubSeq(AfterMarker(text), 1, ObjEnd(AfterMarker(text), 1) - 1)

LastWindow(history, window) ==
    SubSeq(history, Len(history) - Min(Len(history), window) + 1, Len(history))

RaisedAt(where, kinds) ==
    \E i \in 1..Len(raised) : raised[i].where = where /\ raised[i].fault \in kinds

-----------------------------------------------------------------------------
(* C1: the rendered context holds exactly the min(|H|, W) most recent messages
   of the history, in their order, for every window W, W = 0 included.
   Checked under SpecCtx.  The code renders the whole history for W = 0. *)
C1_ContextIsLastWindow ==
    pc = "rendered" => context.messages = LastWindow(conversation_history, max_history)

(* C2: a turn whose first reply is a directive for a catalog tool, whose tool
   call returns and whose second model call returns, gives the second reply as
   its output, and the history is the history before the turn plus the user
   message and the assistant message with the second reply, nothing else. *)
C2_ToolTurnStoresQuestionAndAnswer ==
    ( /\ TurnReturned
      /\ Contains(response, TU)
      /\ Len(ToolCalls) = 1
      /\ ToolCalls[1].tool \in CatalogNames
      /\ tool_result.kind = "text"
      /\ final_response # <<>> )
    => /\ output = ReplyOut(final_response)
       /\ conversation_history =
             turn_start \o <<UserMessage, Message("assistant", final_response)>>

C2_Witness ==
    /\ TurnReturned
    /\ Contains(response, TU)
    /\ Len(ToolCalls) = 1
    /\ ToolCalls[1].tool \in CatalogNames
    /\ tool_result.kind = "text"
    /\ final_response # <<>>
    /\ final_response # response
    /\ Len(turn_start) = 2

(* C3: a turn whose first reply has no TOOL_USE: marker calls no tool and makes
   no second model call; the reply is stored as the assistant message right
   after the user message of the turn and is the output of the turn. *)
C3_PlainReplyStoredAndReturned ==
    (last = "turn" /\ response # <<>> /\ ~Contains(response, TU))
    => /\ pc = "input"
       /\ calls = <<GenerateCall>>
       /\ tool_result = NoResult
       /\ output = ReplyOut(response)
       /\ conversation_history =
             turn_start \o <<UserMessage, Message("assistant", response)>>

C3_Witness ==
    /\ TurnReturned
    /\ response # <<>>
    /\ ~Contains(response, TU)
    /\ Contains(response, PM)
    /\ tools # <<>>
    /\ turn_start # <<>>

(* C4: a reply with a TOOL_USE: marker, the name of a catalog tool and a
   PARAMETERS: marker that no valid JSON object follows ends the turn with the
   malformed parameters diagnostic naming the tool, and the tool is never
   called.
   The code calls the tool with empty arguments when the object is never
   closed or the text is no object at all. *)
C4_MalformedParametersNeverCalled ==
    ( /\ last = "turn"
      /\ response # <<>>
      /\ HasToolMatch(response)
      /\ ToolMatchGroup(response) \in CatalogNames
      /\ Contains(response, PM)
      /\ ~ValidObjectFollows(response) )
    => /\ ToolCalls = <<>>
       /\ pc = "input"
       /\ output = MalformedOut(ToolMatchGroup(response))

(* C5: when a valid JSON object follows the PARAMETERS: marker of a directive
   for a catalog tool, the tool is called with exactly that object, nested
   objects and objects over several lines included.
   The code cuts the object at its first closing brace. *)
C5_WholeObjectIsPassed ==
    ( /\ last = "turn"
      /\ response # <<>>
      /\ HasToolMatch(response)
      /\ ToolMatchGroup(response) \in CatalogNames
      /\ ValidObjectFollows(response) )
    => /\ Len(ToolCalls) = 1
       /\ ToolCalls[1].arguments = ObjectAfterMarker(response)

(* C6: a parsed directive that names a tool outside the catalog never reaches
   call_tool and makes no second model call; the output of the turn names the
   requested tool and lists every name of the catalog. *)
C6_UnknownToolNotCalled ==
    ( /\ last = "turn"
      /\ response # <<>>
      /\ HasToolMatch(response)
      /\ ParsedParameters(response) # JSONDecodeError
      /\ ToolMatchGroup(response) \notin CatalogNames )
    => /\ pc = "input"
       /\ calls = <<GenerateCall>>
       /\ tool_result = NoResult
       /\ output.kind = "unknown_tool"
       /\ output.tool = ToolMatchGroup(response)
       /\ output.listing = [i \in 1..Len(tools) |-> tools[i].name]

C6_Witness ==
    /\ TurnReturned
    /\ response # <<>>
    /\ HasToolMatch(response)
    /\ ParsedParameters(response) # JSONDecodeError
    /\ ToolMatchGroup(response) \notin CatalogNames
    /\ Len(tools) = 2
    /\ output.kind = "unknown_tool"

(* C7: when the tool provider raises during call_tool for a catalog tool, the
   follow-up model call is skipped and the output of the turn is the text
   "Error calling tool <name>: <cause>" itself.
   The code hands that text to the model as the tool result and returns the
   reply of the model. *)
C7_ToolFaultSkipsFollowup ==
    RaisedAt("call_tool", Exceptions)
    => /\ Len(GenerateCalls) = 1
       /\ pc = "input"
       /\ output.kind = "tool_error"
       /\ output.tool = tool_name

(* C8: a turn that ends in an unknown tool or in a failed tool call stores its
   diagnostic as an assistant message, the last entry of the history.
   The code returns the unknown tool diagnostic without storing it. *)
C8_FailureDiagnosticStored ==
    (TurnReturned /\ (output.kind = "unknown_tool" \/ RaisedAt("call_tool", Exceptions)))
    => /\ Len(conversation_history) = Len(turn_start) + 2
       /\ conversation_history[Len(conversation_history)].role = "assistant"
       /\ final_response = <<>>

(* C9: when the first model call of a turn raises, the shell loop catches the
   fault, prints a diagnostic and waits for the next input; the history is the
   history before the turn plus the user message of the turn. *)
C9_FirstCallFaultKeepsShell ==
    (last = "turn" /\ RaisedAt("generate", {"Exception", "TimeoutError"}))
    => /\ pc = "input"
       /\ output.kind = "shell_error"
       /\ output.cause = raised[1].fault
       /\ calls = <<GenerateCall>>
       /\ conversation_history = turn_start \o <<UserMessage>>

C9_Witness ==
    /\ TurnReturned
    /\ raised = <<[where |-> "generate", fault |-> "Exception"]>>
    /\ Len(turn_start) = 2
    /\ conversation_history = turn_start \o <<UserMessage>>

(* C10: a cancellation or a timeout raised by the model call or by the tool
   call ends the turn like any other failure and the shell keeps running.
   CancelledError is no Exception: no except clause of the code catches it
   and the shell loop ends. *)
C10_SignalsAreRecoverable ==
    (\E i \in 1..Len(raised) : raised[i].fault \in {"TimeoutError", "CancelledError"})
    => pc # "crashed"

-----------------------------------------------------------------------------
IsPrefix(p, q) == Len(p) <= Len(q) /\ SubSeq(q, 1, Len(p)) = p

IsSuffix(p, q) == Len(p) <= Len(q) /\ SubSeq(q, Len(q) - Len(p) + 1, Len(q)) = p

(* C11: every step either is the clear command, which empties the history, or
   leaves the history of the state before as a prefix of the history after
   (so between two clears every earlier history is a prefix of every later
   one); the context rendered for a turn holds a suffix of the stored history
   and rendering leaves the stored history whole, also when it is longer than
   the window. *)
C11_HistoryAppendOnly ==
    /\ [][ \/ (pc = "input" /\ last' = "clear" /\ conversation_history' = <<>>)
           \/ IsPrefix(conversation_history, conversation_history') ]_vars
    /\ [](pc = "AwaitingModelReply" =>
             /\ IsSuffix(context.messages, conversation_history)
             /\ conversation_history = Append(turn_start, UserMessage))

C11_Witness ==
    /\ pc = "AwaitingModelReply"
    /\ Len(conversation_history) > max_history
    /\ Len(context.messages) = max_history
    /\ Len(context.messages) < Len(conversation_history)

-----------------------------------------------------------------------------
InTurn == pc \in {"AwaitingModelReply", "AwaitingToolResult", "AwaitingFollowupReply"}

(* C12: turns do not overlap.  While a turn is at one of its awaits the
   history is the history at its start plus its user message, and the next
   step belongs to the same turn: it keeps the input and the start of the
   turn, it is no shell command, and it writes the history only by appending
   the assistant message the turn returns. *)
C12_TurnsDoNotOverlap ==
    /\ [](InTurn => conversation_history = Append(turn_start, UserMessage))
    /\ [][ InTurn =>
             /\ last' = "turn"
             /\ user_input' = user_input
             /\ turn_start' = turn_start
             /\ \/ conversation_history' = conversation_history
                \/ /\ pc' = "input"
                   /\ output'.kind = "reply"
                   /\ conversation_history' =
                         Append(conversation_history, Message("assistant", output'.text)) ]_vars

C12_Witness ==
    /\ pc = "AwaitingFollowupReply"
    /\ Len(turn_start) = 2
    /\ Len(calls) = 3

-----------------------------------------------------------------------------
(* C13: whatever the history held, after the clear it has length 0, and a
   context rendered then has no history section and no history message.
   Checked under SpecCtx, whose histories hold 0..MaxCtxLen messages. *)
C13_ClearThenRenderIsEmpty ==
    /\ last = "clear" => Len(conversation_history) = 0
    /\ (last = "clear" /\ pc = "rendered") =>
          /\ ~context.section
          /\ context.messages = <<>>
          /\ context.tools = format_tools_for_prompt(tools)

C13_Witness ==
    /\ last = "clear"
    /\ pc = "rendered"
    /\ tools # <<>>
    /\ max_history = 0

-----------------------------------------------------------------------------
(* C14: a failure of load_tools, in list_tools or on a descriptor part-way
   through the received list, leaves the session at its prompt with no fault
   escaping; the catalog then holds exactly the descriptors inserted before
   the failure, each name with the descriptor inserted last under it; and
   from then on no step changes the catalog, turns included. *)

\* the descriptors inserted before the loop failed: as many as lines were
\* printed, and one more when it is a print that failed
InsertedBeforeFailure ==
    SubSeq(listed, 1, Len(output.listing) + (IF raised[1].fault = "OSError" THEN 1 ELSE 0))

LoadFailed ==
    /\ last = "load"
    /\ raised # <<>>
    /\ raised[1].fault \in Exceptions \cup {"AttributeError", "OSError"}

C14_LoadFailureKeepsPartialCatalog ==
    /\ [](LoadFailed => (pc = "input" /\ ENABLED StartTurn))
    /\ []((LoadFailed /\ raised[1].where = "list_tools") => tools = <<>>)
    /\ []((LoadFailed /\ raised[1].where = "load_tools") =>
            LET ins == InsertedBeforeFailure IN
            /\ CatalogNames = {ins[i].name : i \in 1..Len(ins)}
            /\ \A k \in 1..Len(tools) : \A j \in 1..Len(tools) :
                   tools[k].name = tools[j].name => k = j
            /\ \A k \in 1..Len(tools) : \E i \in 1..Len(ins) :
                   /\ tools[k] = ins[i]
                   /\ \A j \in (i + 1)..Len(ins) : ins[j].name # tools[k].name)
    /\ [][pc # "load" => tools' = tools]_vars

\* a print failed on the third descriptor, which names the first one again
C14_Witness ==
    /\ LoadFailed
    /\ raised[1] = [where |-> "load_tools", fault |-> "OSError"]
    /\ Len(output.listing) = 2
    /\ tools = <<Tool(ToolA, "d2"), Tool(ToolB, "d1")>>

-----------------------------------------------------------------------------
(* C15: the result text of a successful call_tool is the renderings of all the
   fragments received, one per fragment and in order, joined by newlines and
   stripped: the text of a fragment that has one, str() of a fragment that
   has none. *)

Rendering(frag) == IF frag.hasText THEN frag.text ELSE Repr(frag)

RECURSIVE JoinRenderings(_)
JoinRenderings(content) ==
    IF content = <<>> THEN <<>>
    ELSE IF Len(content) = 1 THEN Rendering(content[1])
    ELSE Rendering(content[1]) \o <<"nl">> \o JoinRenderings(Tail(content))

C15_EveryFragmentRendered ==
    (pc = "returned" /\ tool_result.kind = "text")
    => tool_result.text = Strip(JoinRenderings(result))

-----------------------------------------------------------------------------
(* C16: the tools command, the history command and an empty line change neither
   the history nor the catalog, call neither the model nor a tool and leave
   the shell at its prompt; the tools listing is the catalog, one line per
   name, in the order the names were first received, so two listings in a row
   are equal; and a turn is only ever running for an input that is not empty
   and is none of quit, exit, bye, tools, history, clear in any letter case. *)

ReadOnlyCommands == {"tools", "history", "empty"}

CommandWords ==
    {<<"quit">>, <<"exit">>, <<"bye">>, <<"tools">>, <<"history">>, <<"clear">>}

\* the position at which the provider's list first names n
FirstReceived(n) == CHOOSE i \in 1..Len(listed) :
    listed[i].name = n /\ \A j \in 1..(i - 1) : listed[j].name # n

C16_ReadOnlyCommands ==
    /\ [][ (pc = "input" /\ last' \in ReadOnlyCommands) =>
             /\ conversation_history' = conversation_history
             /\ tools' = tools
             /\ calls' = <<>>
             /\ pc' = "input" ]_vars
    /\ [](last = "tools" =>
             /\ output.kind = "tools"
             /\ output.listing = tools
             /\ \A i \in 1..Len(tools) : \A j \in 1..Len(tools) :
                    i < j => FirstReceived(tools[i].name) < FirstReceived(tools[j].name))
    /\ [][ (last = "tools" /\ last' = "tools") => output' = output ]_vars
    /\ []((InTurn \/ calls # <<>>) =>
             /\ last = "turn"
             /\ user_input # <<>>
             /\ Lower(user_input) \notin CommandWords)

\* a listing of two names, the first of them received again third, after a turn
\* was stored
C16_Witness ==
    /\ last = "tools"
    /\ Len(output.listing) = 2
    /\ listed[3].name = output.listing[1].name
    /\ Len(conversation_history) = 2

-----------------------------------------------------------------------------
(* C17: a reply that holds the TOOL_USE: marker but no directive that can be
   parsed (no marker is followed by a tool name, or no valid JSON object
   follows the PARAMETERS: marker) ends the turn at the prompt with a
   diagnostic, without a tool call and without a second model call, and
   neither kind of failure appends to the history.
   The code calls the tool, and the model again, when the parameters are
   malformed in the way of C4. *)

NoNameAfterMarker(text) ==
    \A i \in 1..Len(text) :
        text[i] = TU =>
            \/ SkipSpace(text, i + 1) > Len(text)
            \/ text[SkipSpace(text, i + 1)] \notin WordChars

MalformedParameters(text) == Contains(text, PM) /\ ~ValidObjectFollows(text)

Diagnostics == {"unparsable_name", "malformed_parameters", "unknown_tool"}

C17_UnparsableDirectiveShortCircuits ==
    ( /\ last = "turn"
      /\ response # <<>>
      /\ Contains(response, TU)
      /\ NoNameAfterMarker(response) \/ MalformedParameters(response) )
    => /\ pc = "input"
       /\ output.kind \in Diagnostics
       /\ ToolCalls = <<>>
       /\ GenerateCalls = <<GenerateCall>>
       /\ conversation_history = Append(turn_start, UserMessage)

-----------------------------------------------------------------------------
(* C18: the calls of a turn are, in this order, one model call, then at most
   one tool call, then at most one more model call, which is made only after
   the tool call is over; the tool call is made only once the first reply is
   in, names a tool of the catalog and is the name read from that reply.  The
   steps of a turn go from the prompt to the wait for the first reply, from
   there back to the prompt or on to the wait for the tool, from there on to
   the wait for the follow-up reply, and from there back to the prompt. *)

CallOrders ==
    { <<"generate">>, <<"generate", "call_tool">>, <<"generate", "call_tool", "generate">> }

TurnSteps ==
    { <<"input", "AwaitingModelReply">>,
      <<"AwaitingModelReply", "input">>,
      <<"AwaitingModelReply", "AwaitingToolResult">>,
      <<"AwaitingToolResult", "AwaitingFollowupReply">>,
      <<"AwaitingFollowupReply", "input">> }

C18_TurnCallOrder ==
    /\ [](last = "turn" =>
             /\ [i \in 1..Len(calls) |-> calls[i].op] \in CallOrders
             /\ Len(GenerateCalls) <= 2
             /\ Len(ToolCalls) <= 1
             /\ ToolCalls # <<>> =>
                    /\ response # <<>>
                    /\ NoNameAfterMarker(response) = FALSE
                    /\ ToolCalls[1].tool \in CatalogNames
                    /\ ToolCalls[1].tool = ToolMatchGroup(response)
             /\ Len(GenerateCalls) = 2 =>
                    /\ Len(ToolCalls) = 1
                    /\ tool_result # NoResult
                    /\ pc \in {"AwaitingFollowupReply", "input", "crashed"}
             /\ (pc = "AwaitingModelReply") = (response = <<>> /\ InTurn)
             /\ pc = "AwaitingToolResult" => Len(calls) = 2
             /\ pc = "AwaitingFollowupReply" => Len(calls) = 3)
    /\ [][ (InTurn \/ last' = "turn") =>
             \/ <<pc, pc'>> \in TurnSteps
             \/ pc' = "crashed" ]_vars

\* a turn back at the prompt after the tool raised and the follow-up was answered
C18_Witness ==
    /\ TurnReturned
    /\ Len(calls) = 3
    /\ tool_result.kind = "error"
    /\ output.kind = "reply"

-----------------------------------------------------------------------------
(* C19: in every state, whatever turns succeeded or failed and whatever was
   cleared, each assistant message of the history comes right after a user
   message, so the history neither starts with an assistant message nor holds
   two of them in a row, and it holds at most as many assistant messages as
   user messages; and a turn, while it runs and once it is over, has appended
   its one user message and after it at most one assistant message. *)

Count(history, r) == Cardinality({i \in 1..Len(history) : history[i].role = r})

C19_AssistantFollowsUser ==
    /\ \A i \in 1..Len(conversation_history) :
          conversation_history[i].role = "assistant" =>
              i > 1 /\ conversation_history[i - 1].role = "user"
    /\ Count(conversation_history, "assistant") <= Count(conversation_history, "user")
    /\ last = "turn" =>
          \/ conversation_history = Append(turn_start, UserMessage)
          \/ /\ pc = "input"
             /\ Len(conversation_history) = Len(turn_start) + 2
             /\ SubSeq(conversation_history, 1, Len(turn_start) + 1) =
                    Append(turn_start, UserMessage)
             /\ conversation_history[Len(conversation_history)].role = "assistant"

\* a turn that stored its answer right after a turn that stored none
C19_Witness ==
    /\ TurnReturned
    /\ Len(conversation_history) = 3
    /\ conversation_history[1].role = "user"
    /\ conversation_history[2].role = "user"
    /\ conversation_history[3].role = "assistant"

-----------------------------------------------------------------------------
(* C20: when the tool of a turn was called and the second model call then
   raises, handle_tool_use catches the fault and the turn is back at the
   prompt with the tool use diagnostic naming the fault; the history is the
   history before the turn plus the user message of the turn, the tool was
   called once and the model twice; and the next turn starts as any turn
   does, with its user message appended and one model call. *)

FollowupFailed ==
    /\ last = "turn"
    /\ raised # <<>>
    /\ raised[Len(raised)].where = "followup"
    /\ raised[Len(raised)].fault \in {"Exception", "TimeoutError"}

C20_FollowupFaultIsContained ==
    /\ [](FollowupFailed =>
             /\ pc = "input"
             /\ output.kind = "tool_use_error"
             /\ output.cause = raised[Len(raised)].fault
             /\ conversation_history = Append(turn_start, UserMessage)
             /\ Len(ToolCalls) = 1
             /\ Len(GenerateCalls) = 2
             /\ Len(conversation_history) < MaxHistoryLen => ENABLED StartTurn)
    /\ [][ (FollowupFailed /\ pc' = "AwaitingModelReply") =>
             /\ conversation_history' =
                    Append(conversation_history, Message("user", user_input'))
             /\ turn_start' = conversation_history
             /\ calls' = <<GenerateCall>>
             /\ raised' = <<>>
             /\ tool_result' = NoResult ]_vars

\* the follow-up raised after the tool had returned its text, in the second turn
C20_Witness ==
    /\ FollowupFailed
    /\ tool_result.kind = "text"
    /\ Len(raised) = 1
    /\ Len(turn_start) = 2

====
